---- MODULE Spec2Model ----
(***************************************************************************)
(* A model of the chess rules engine of Kylobe/CS-4230-Project:            *)
(* the position codec (utils/static_chess_methods.py), the pieces' move    *)
(* generation (utils/pieces.py), the board and its move_piece primitive    *)
(* (utils/board.py), the check detector (utils/check_detector.py) and the  *)
(* move validator (utils/move_validator.py).                               *)
(*                                                                         *)
(* Python objects are modelled with their identity: a grid is a list       *)
(* object named by a grid id, a piece is an object named by a piece id,    *)
(* and `heap` maps every live piece id to the piece's fields (including    *)
(* the reference `grid` the piece reads occupancy from).  A text is a      *)
(* sequence of one-character strings.                                      *)
(***************************************************************************)
EXTENDS Integers, Sequences, FiniteSets, TLC

VARIABLES
    heap,    \* piece id -> [piece_type, color, row, col, grid]: the live Piece objects
    grids,   \* grid id -> the 8x8 list of lists (a piece id or None per cell)
    board,   \* Board.grid: the id of the grid the board currently holds
    call,    \* the last call made on the engine: its name and arguments
    ret,     \* what that call returned (or the exception it raised)
    moves,   \* number of move_piece results committed with Board.set_grid
    game     \* the Game object's fields: current_player, game_over

vars == <<heap, grids, board, call, ret, moves, game>>

-----------------------------------------------------------------------------
(* Python's None, for an index, a cell or a returned object.               *)
None == -99

Colors == {"white", "black"}

PieceTypes == {"pawn", "knight", "bishop", "rook", "queen", "king"}

Indices == 0..7

Squares == Indices \X Indices

-----------------------------------------------------------------------------
(* Python built-ins used by the codec.                                     *)

UpperLetters == <<"A","B","C","D","E","F","G","H","I","J","K","L","M",
                  "N","O","P","Q","R","S","T","U","V","W","X","Y","Z">>

LowerLetters == <<"a","b","c","d","e","f","g","h","i","j","k","l","m",
                  "n","o","p","q","r","s","t","u","v","w","x","y","z">>

DigitChars == <<"0","1","2","3","4","5","6","7","8","9">>

Whitespace == {" ", "\t", "\n"}

(* seq[i] with Python's indexing: 0-based, a negative i counts from the end. *)
PyIndexOk(seq, i) == i >= -Len(seq) /\ i < Len(seq)

PyIndex(seq, i) == IF i >= 0 THEN seq[i + 1] ELSE seq[Len(seq) + i + 1]

(* ord() of a capital letter and chr() back. *)
ord(ch) == 64 + (CHOOSE i \in 1..Len(UpperLetters) : UpperLetters[i] = ch)

chr(n) == UpperLetters[n - 64]

(* int() of a digit character. *)
int(ch) == (CHOOSE i \in 1..Len(DigitChars) : DigitChars[i] = ch) - 1

(* str() of an integer. *)
RECURSIVE str(_)
str(n) ==
    IF n < 0 THEN <<"-">> \o str(-n)
    ELSE IF n < 10 THEN <<DigitChars[n + 1]>>
    ELSE str(n \div 10) \o <<DigitChars[(n % 10) + 1]>>

(* str.upper(), character by character. *)
upper_char(ch) ==
    IF \E i \in 1..Len(LowerLetters) : LowerLetters[i] = ch
    THEN UpperLetters[CHOOSE i \in 1..Len(LowerLetters) : LowerLetters[i] = ch]
    ELSE ch

upper(t) == [i \in 1..Len(t) |-> upper_char(t[i])]

(* str.strip(): leading and trailing whitespace removed. *)
RECURSIVE lstrip(_)
lstrip(t) == IF t # <<>> /\ Head(t) \in Whitespace THEN lstrip(Tail(t)) ELSE t

RECURSIVE rstrip(_)
rstrip(t) ==
    IF t # <<>> /\ t[Len(t)] \in Whitespace
    THEN rstrip(SubSeq(t, 1, Len(t) - 1))
    ELSE t

strip(t) == rstrip(lstrip(t))

(* `sep in t` for texts. *)
contains(t, sep) == \E i \in 1..(Len(t) - Len(sep) + 1) : SubSeq(t, i, i + Len(sep) - 1) = sep

(* t.split(sep): the parts of t between the occurrences of sep, found from *)
(* the left.                                                               *)
RECURSIVE split_from(_, _, _, _)
split_from(t, sep, i, start) ==
    IF i + Len(sep) - 1 > Len(t) THEN << SubSeq(t, start, Len(t)) >>
    ELSE IF SubSeq(t, i, i + Len(sep) - 1) = sep
         THEN << SubSeq(t, start, i - 1) >> \o split_from(t, sep, i + Len(sep), i + Len(sep))
         ELSE split_from(t, sep, i + 1, start)

split(t, sep) == split_from(t, sep, 1, 1)

(* t.split(): the runs of characters that are not whitespace. *)
RECURSIVE words_from(_, _, _)
words_from(t, i, start) ==
    IF i > Len(t)
    THEN IF start = 0 THEN <<>> ELSE << SubSeq(t, start, Len(t)) >>
    ELSE IF t[i] \in Whitespace
         THEN IF start = 0 THEN words_from(t, i + 1, 0)
              ELSE << SubSeq(t, start, i - 1) >> \o words_from(t, i + 1, 0)
         ELSE words_from(t, i + 1, IF start = 0 THEN i ELSE start)

split_whitespace(t) == words_from(t, 1, 0)

(* `x in s` for a one-character x and a string s. *)
CharIn(ch, s) == \E i \in 1..Len(s) : s[i] = ch

(* A function written out as an explicit table of its values, and a list   *)
(* written out element by element: the same value, computed once.          *)
Table(f) == f @@ <<>>

(* The element of a one-element set: The({F(x) : x \in {e}}) is F(e) with  *)
(* e computed once.                                                        *)
The(S) == CHOOSE x \in S : TRUE

List(f) == f \o <<>>

-----------------------------------------------------------------------------
(* The position codec: StaticChessMethods.                                 *)

FileLetters == <<"A","B","C","D","E","F","G","H">>

RankDigits == <<"1","2","3","4","5","6","7","8">>

uci_to_indices_swapped(position) ==
    LET p == upper(strip(position)) IN
    IF Len(p) # 2 THEN <<None, None>>
    ELSE IF ~CharIn(p[1], FileLetters) \/ ~CharIn(p[2], RankDigits)
         THEN <<None, None>>
         ELSE <<ord(p[1]) - ord("A"), int(p[2]) - 1>>

(* uci_to_indices without the strip() of its first statement. *)
uci_to_indices_untrimmed(position) ==
    LET p == upper(position) IN
    IF Len(p) # 2 THEN <<None, None>>
    ELSE IF ~CharIn(p[1], FileLetters) \/ ~CharIn(p[2], RankDigits)
         THEN <<None, None>>
         ELSE <<int(p[2]) - 1, ord(p[1]) - ord("A")>>

uci_to_indices(position) ==
    LET p == upper(strip(position)) IN
    IF Len(p) # 2 THEN <<None, None>>
    ELSE LET file_char == p[1]
             rank_char == p[2]
         IN IF ~CharIn(file_char, FileLetters) \/ ~CharIn(rank_char, RankDigits)
            THEN <<None, None>>
            ELSE LET col == ord(file_char) - ord("A")
                     row == int(rank_char) - 1
                 IN <<row, col>>

(* files[col] raises IndexError outside -8..7; inside, a negative col wraps. *)
indices_to_uci_raises(row, col) == ~PyIndexOk(FileLetters, col)

indices_to_uci(row, col) ==
    LET rank == row + 1
        files == FileLetters
        file == PyIndex(files, col)
        uci == <<file>> \o str(rank)
    IN uci

-----------------------------------------------------------------------------
(* Object identity.  A grid id names one list-of-lists object; the piece   *)
(* object created for cell (row, col) of grid g, and the queen created by  *)
(* a promotion on grid g, get ids of their own.                            *)

GridIds == {0, 1}

OtherGrid(g) == 1 - g

PieceId(g, row, col) == g * 65 + row * 8 + col + 1

PromotedId(g) == g * 65 + 65

EmptyGrid == List([r \in 1..8 |-> List([c \in 1..8 |-> None])])

(* grid[row][col], read and written. *)
Cell(grid, row, col) == PyIndex(PyIndex(grid, row), col)

SetCell(grid, row, col, v) == [grid EXCEPT ![row + 1][col + 1] = v]

(* isinstance(x, Piece) for a cell's content. *)
IsPiece(x) == x # None

NewPiece(piece_type, color, row, col, grid) ==
    [piece_type |-> piece_type, color |-> color, row |-> row, col |-> col, grid |-> grid]

(* Piece.copy(): a new object of the same class with the same fields. *)
copy(piece) == NewPiece(piece.piece_type, piece.color, piece.row, piece.col, piece.grid)

(* Piece.set_row_col and Piece.set_grid, on the object id p of heap h. *)
set_row_col(h, p, row, col) == [h EXCEPT ![p].row = row, ![p].col = col]

set_grid(h, p, grid) == [h EXCEPT ![p].grid = grid]

-----------------------------------------------------------------------------
(* Move generation of the pieces (utils/pieces.py).  Every operator takes  *)
(* the heap h, the grids gs and the id p of the piece (`self`); the piece  *)
(* reads occupancy from gs[h[p].grid], its own grid reference.             *)

(* The concatenation of a list of lists, in order. *)
RECURSIVE FlattenFrom(_, _)
FlattenFrom(ss, i) == IF i > Len(ss) THEN <<>> ELSE ss[i] \o FlattenFrom(ss, i + 1)

Flatten(ss) == The({FlattenFrom(lists, 1) : lists \in {List(ss)}})

(* Pawn two-step without the test of the square two steps ahead. *)
pawn_double_move_unblocked(h, gs, p) ==
    LET self == h[p]
        direction == IF self.color = "white" THEN 1 ELSE -1
        starting_row == IF self.color = "white" THEN 1 ELSE 6
    IN IF self.row = starting_row
       THEN << indices_to_uci(self.row + direction + direction, self.col) >>
       ELSE <<>>

(* Pawn two-step as the code has it: on the home rank, the square two      *)
(* steps ahead is listed when that square itself is empty.                 *)
pawn_double_move(h, gs, p) ==
    LET self == h[p]
        direction == IF self.color = "white" THEN 1 ELSE -1
        starting_row == IF self.color = "white" THEN 1 ELSE 6
        forward_rank == self.row + direction + direction
    IN IF self.row = starting_row
       THEN IF Cell(gs[self.grid], forward_rank, self.col) = None
            THEN << indices_to_uci(forward_rank, self.col) >>
            ELSE <<>>
       ELSE <<>>

(* The pawn's capture without the test of the captured piece's color. *)
pawn_capture_any(h, gs, p, forward_rank, side_col) ==
    IF side_col >= 0 /\ side_col <= 7 /\ IsPiece(Cell(gs[h[p].grid], forward_rank, side_col))
    THEN << indices_to_uci(forward_rank, side_col) >>
    ELSE <<>>

pawn_capture(h, gs, p, forward_rank, side_col) ==
    IF side_col >= 0 /\ side_col <= 7
    THEN LET capture_piece == Cell(gs[h[p].grid], forward_rank, side_col)
         IN IF IsPiece(capture_piece) /\ h[capture_piece].color # h[p].color
            THEN << indices_to_uci(forward_rank, side_col) >>
            ELSE <<>>
    ELSE <<>>

pawn_get_legal_moves(h, gs, p) ==
    LET self == h[p]
        direction == IF self.color = "white" THEN 1 ELSE -1
        forward_rank == self.row + direction
        forward == IF Cell(gs[self.grid], forward_rank, self.col) = None
                   THEN << indices_to_uci(forward_rank, self.col) >>
                   ELSE <<>>
        left_col == self.col - 1
        right_col == self.col + 1
    IN forward
       \o pawn_capture(h, gs, p, forward_rank, left_col)
       \o pawn_capture(h, gs, p, forward_rank, right_col)
       \o pawn_double_move(h, gs, p)

knight_row_offsets == <<-2, -2, -1, -1, 1, 1, 2, 2>>

knight_col_offsets == <<-1, 1, -2, 2, -2, 2, -1, 1>>

(* The knight's moves without its captures. *)
knight_get_legal_moves_empty_only(h, gs, p) ==
    Flatten([k \in 1..8 |->
        LET cur_row == h[p].row + knight_row_offsets[k]
            cur_col == h[p].col + knight_col_offsets[k]
        IN IF cur_row >= 0 /\ cur_col >= 0 /\ cur_row <= 7 /\ cur_col <= 7
              /\ Cell(gs[h[p].grid], cur_row, cur_col) = None
           THEN << indices_to_uci(cur_row, cur_col) >>
           ELSE <<>>])

knight_get_legal_moves(h, gs, p) ==
    Flatten([k \in 1..8 |->
        LET cur_row == h[p].row + knight_row_offsets[k]
            cur_col == h[p].col + knight_col_offsets[k]
        IN IF cur_row >= 0 /\ cur_col >= 0 /\ cur_row <= 7 /\ cur_col <= 7
           THEN LET capture_piece == Cell(gs[h[p].grid], cur_row, cur_col)
                IN IF (IsPiece(capture_piece) /\ h[capture_piece].color # h[p].color)
                      \/ capture_piece = None
                   THEN << indices_to_uci(cur_row, cur_col) >>
                   ELSE <<>>
           ELSE <<>>])

(* The inner loop of one direction without its break at an enemy piece. *)
RECURSIVE direction_moves_through(_, _, _, _, _, _, _)
direction_moves_through(h, gs, p, forward_direction, horizontal_direction, i, stop) ==
    IF i >= stop THEN <<>>
    ELSE LET cur_row == h[p].row + i * forward_direction
             cur_col == h[p].col + i * horizontal_direction
         IN IF cur_row < 0 \/ cur_row > 7 \/ cur_col < 0 \/ cur_col > 7
            THEN <<>>
            ELSE LET capture_piece == Cell(gs[h[p].grid], cur_row, cur_col)
                 IN IF capture_piece = None \/ h[capture_piece].color # h[p].color
                    THEN << indices_to_uci(cur_row, cur_col) >>
                         \o direction_moves_through(h, gs, p, forward_direction,
                                                    horizontal_direction, i + 1, stop)
                    ELSE <<>>

(* The inner loop `for i in range(i, stop)` of one direction: it appends   *)
(* empty squares, appends an enemy square and breaks, breaks at a friendly *)
(* square and at the board edge.                                           *)
RECURSIVE direction_moves(_, _, _, _, _, _, _)
direction_moves(h, gs, p, forward_direction, horizontal_direction, i, stop) ==
    IF i >= stop THEN <<>>
    ELSE LET cur_row == h[p].row + i * forward_direction
             cur_col == h[p].col + i * horizontal_direction
         IN IF cur_row < 0 \/ cur_row > 7 \/ cur_col < 0 \/ cur_col > 7
            THEN <<>>
            ELSE LET capture_piece == Cell(gs[h[p].grid], cur_row, cur_col)
                 IN IF capture_piece = None
                    THEN << indices_to_uci(cur_row, cur_col) >>
                         \o direction_moves(h, gs, p, forward_direction,
                                            horizontal_direction, i + 1, stop)
                    ELSE IF h[capture_piece].color # h[p].color
                         THEN << indices_to_uci(cur_row, cur_col) >>
                         ELSE <<>>

straight_forward_directions == <<-1, 1, 0, 0>>

straight_horizontal_directions == <<0, 0, -1, 1>>

diagonal_forward_directions == <<-1, -1, 1, 1>>

diagonal_horizontal_directions == <<1, -1, 1, -1>>

straight_moves(h, gs, p, stop) ==
    Flatten([k \in 1..4 |->
        direction_moves(h, gs, p, straight_forward_directions[k],
                        straight_horizontal_directions[k], 1, stop)])

diagonal_moves(h, gs, p, stop) ==
    Flatten([k \in 1..4 |->
        direction_moves(h, gs, p, diagonal_forward_directions[k],
                        diagonal_horizontal_directions[k], 1, stop)])

bishop_get_legal_moves(h, gs, p) == diagonal_moves(h, gs, p, 8)

rook_get_legal_moves(h, gs, p) == straight_moves(h, gs, p, 8)

queen_get_legal_moves(h, gs, p) == straight_moves(h, gs, p, 8) \o diagonal_moves(h, gs, p, 8)

king_get_legal_moves(h, gs, p) == straight_moves(h, gs, p, 2) \o diagonal_moves(h, gs, p, 2)

(* piece.get_legal_moves(): dispatch on the class of the object. *)
get_legal_moves(h, gs, p) ==
    CASE h[p].piece_type = "pawn"   -> pawn_get_legal_moves(h, gs, p)
      [] h[p].piece_type = "knight" -> knight_get_legal_moves(h, gs, p)
      [] h[p].piece_type = "bishop" -> bishop_get_legal_moves(h, gs, p)
      [] h[p].piece_type = "rook"   -> rook_get_legal_moves(h, gs, p)
      [] h[p].piece_type = "queen"  -> queen_get_legal_moves(h, gs, p)
      [] h[p].piece_type = "king"   -> king_get_legal_moves(h, gs, p)

(* `x in list` for a list of texts. *)
InList(x, list) == \E i \in 1..Len(list) : list[i] = x

-----------------------------------------------------------------------------
(* The board (utils/board.py).                                             *)

(* The back rank with king and queen on each other's files. *)
back_rank_reversed == <<"rook", "knight", "bishop", "king", "queen", "bishop", "knight", "rook">>

back_rank == <<"rook", "knight", "bishop", "queen", "king", "bishop", "knight", "rook">>

(* The ids of the piece objects held in the cells of a grid. *)
PiecesOf(grid) == {grid[r][c] : r \in 1..8, c \in 1..8} \ {None}

(* Board.__init__ / setup_initial_position, building grid object g:        *)
(* white on rows 0 and 1, black on rows 6 and 7.                           *)
setup_initial_position(g) ==
    LET kind(row, col) == IF row \in {1, 6} THEN "pawn" ELSE back_rank[col + 1]
        side(row) == IF row <= 1 THEN "white" ELSE "black"
        placed == {sq \in Squares : sq[1] \in {0, 1, 6, 7}}
    IN [heap |-> Table([id \in {PieceId(g, sq[1], sq[2]) : sq \in placed} |->
                    LET row == (id - g * 65 - 1) \div 8
                        col == (id - g * 65 - 1) % 8
                    IN NewPiece(kind(row, col), side(row), row, col, g)]),
        grid |-> List([r \in 1..8 |-> List([c \in 1..8 |->
                    IF <<r - 1, c - 1>> \in placed THEN PieceId(g, r - 1, c - 1)
                    ELSE None])])]

(* Board.position_to_indices: the board's own copy of the codec. *)
position_to_indices(position) ==
    LET p == upper(strip(position)) IN
    IF Len(p) # 2 THEN <<None, None>>
    ELSE LET file_char == p[1]
             rank_char == p[2]
         IN IF ~CharIn(file_char, FileLetters) \/ ~CharIn(rank_char, RankDigits)
            THEN <<None, None>>
            ELSE LET col == ord(file_char) - ord("A")
                     row == int(rank_char) - 1
                 IN <<row, col>>

(* Board.get_piece on the grid object g. *)
get_piece(gs, g, position) ==
    LET rc == position_to_indices(position) IN
    IF rc[1] = None THEN None ELSE Cell(gs[g], rc[1], rc[2])

(* move_piece, first loop: a new list of lists n whose cells hold copies   *)
(* of the pieces of grid b.  Objects that nothing refers to any more (an   *)
(* earlier grid's) are dropped from the heap.                              *)
copy_grid_aliased(h, gs, b, n) ==
    [heap  |-> Table([id \in PiecesOf(gs[b]) |-> h[id]]),
     grids |-> (b :> gs[b]) @@ (n :> gs[b])]

copy_grid(h, gs, b, n) ==
    LET old == gs[b]
        occupied == {sq \in Squares : IsPiece(Cell(old, sq[1], sq[2]))}
        fresh == {PieceId(n, sq[1], sq[2]) : sq \in occupied}
        kept == PiecesOf(old)
    IN [heap  |-> Table([id \in kept |-> h[id]]) @@
                  Table([id \in fresh |->
                     copy(h[Cell(old, (id - n * 65 - 1) \div 8, (id - n * 65 - 1) % 8)])]),
        grids |-> (b :> old) @@
                  (n :> List([r \in 1..8 |-> List([c \in 1..8 |->
                          IF IsPiece(old[r][c]) THEN PieceId(n, r - 1, c - 1)
                          ELSE None])]))]

(* move_piece, second loop: every piece of the new grid n gets set_grid(n). *)
repoint_grid_skipped(h, gs, n) == h

repoint_grid(h, gs, n) ==
    LET new_pieces == PiecesOf(gs[n]) IN
    Table([id \in DOMAIN h |->
             IF id \in new_pieces THEN [h[id] EXCEPT !.grid = n] ELSE h[id]])

(* move_piece, the move itself on the new grid: the captured piece is read *)
(* from the destination, the piece is written there, the source is cleared. *)
relocate_source_kept(grid, piece, source_row, source_col, dest_row, dest_col) ==
    SetCell(grid, dest_row, dest_col, piece)

relocate(grid, piece, source_row, source_col, dest_row, dest_col) ==
    SetCell(SetCell(grid, dest_row, dest_col, piece), source_row, source_col, None)

(* move_piece, promotion: a pawn on the far row is replaced by a new Queen. *)
promote_white_only(h, grid, n, piece, dest_row, dest_col) ==
    IF h[piece].piece_type = "pawn" /\ h[piece].color = "white" /\ dest_row = 7
    THEN [heap |-> (PromotedId(n) :> NewPiece("queen", "white", dest_row, dest_col, n)) @@ h,
          grid |-> SetCell(grid, dest_row, dest_col, PromotedId(n))]
    ELSE [heap |-> h, grid |-> grid]

promote(h, grid, n, piece, dest_row, dest_col) ==
    IF h[piece].piece_type = "pawn"
    THEN IF h[piece].color = "white" /\ dest_row = 7
         THEN [heap |-> (PromotedId(n) :> NewPiece("queen", "white", dest_row, dest_col, n)) @@ h,
               grid |-> SetCell(grid, dest_row, dest_col, PromotedId(n))]
         ELSE IF h[piece].color = "black" /\ dest_row = 0
         THEN [heap |-> (PromotedId(n) :> NewPiece("queen", "black", dest_row, dest_col, n)) @@ h,
               grid |-> SetCell(grid, dest_row, dest_col, PromotedId(n))]
         ELSE [heap |-> h, grid |-> grid]
    ELSE [heap |-> h, grid |-> grid]

(* An exception leaves the caller with what it had: the objects built so   *)
(* far are unreachable.                                                    *)
Raised(exception, h, gs) ==
    [raised |-> exception, heap |-> h, grids |-> gs, new_grid |-> None, captured |-> None]

(* The two loops together: the new grid n and the heap holding its pieces. *)
copy_and_repoint(h, gs, b, n) ==
    The({[heap |-> repoint_grid(copied.heap, copied.grids, n), grids |-> copied.grids] :
            copied \in {copy_grid(h, gs, b, n)}})

(* The rest of move_piece, on the copy: src and dst are the index pairs of *)
(* source and destination.                                                 *)
move_on_copy(h, gs, b, n, copied, src, dst) ==
    LET new_grid == copied.grids[n]
        source_row == src[1]
        source_col == src[2]
        dest_row == dst[1]
        dest_col == dst[2]
    IN IF source_row = None THEN Raised("TypeError", h, gs)
       ELSE LET piece == Cell(new_grid, source_row, source_col) IN
            IF piece = None THEN Raised("AttributeError", h, gs)
            ELSE IF dest_row = None THEN Raised("TypeError", h, gs)
            ELSE LET captured == Cell(new_grid, dest_row, dest_col) IN
                 The({[raised   |-> "",
                       heap     |-> Table([id \in PiecesOf(gs[b]) \cup PiecesOf(promoted.grid)
                                                  \cup ({captured} \ {None}) |->
                                             promoted.heap[id]]),
                       grids    |-> (b :> gs[b]) @@ (n :> promoted.grid),
                       new_grid |-> n,
                       captured |-> captured] :
                      promoted \in {promote(set_row_col(copied.heap, piece, dest_row, dest_col),
                                            relocate(new_grid, piece, source_row, source_col,
                                                     dest_row, dest_col),
                                            n, piece, dest_row, dest_col)}})

(* Board.move_piece called on the board whose grid is b.  It returns       *)
(* (new_grid, captured), or raises: TypeError for new_grid[None] (a square *)
(* text the codec rejects), AttributeError for None.set_row_col (no piece  *)
(* on the source).                                                         *)
move_piece(h, gs, b, source, destination) ==
    The({move_on_copy(h, gs, b, OtherGrid(b), copied, src, dst) :
            copied \in {copy_and_repoint(h, gs, b, OtherGrid(b))},
            src \in {position_to_indices(source)},
            dst \in {position_to_indices(destination)}})

-----------------------------------------------------------------------------
(* The move validator (utils/move_validator.py), on the board whose grid   *)
(* is g.  Every validate_* returns the pair (is_valid, error_message).     *)

Abs(x) == IF x < 0 THEN -x ELSE x

(* is_path_clear: the while loop over the squares strictly between source  *)
(* and destination, from (current_row, current_col) on.                    *)
RECURSIVE path_clear_from(_, _, _, _, _, _, _)
path_clear_from(grid, current_row, current_col, row_step, col_step, dest_row, dest_col) ==
    IF current_row # dest_row \/ current_col # dest_col
    THEN IF Cell(grid, current_row, current_col) # None
         THEN FALSE
         ELSE path_clear_from(grid, current_row + row_step, current_col + col_step,
                              row_step, col_step, dest_row, dest_col)
    ELSE TRUE

(* is_path_clear without its loop. *)
is_path_clear_unlooked(grid, source_row, source_col, dest_row, dest_col) == TRUE

is_path_clear(grid, source_row, source_col, dest_row, dest_col) ==
    LET row_step == IF source_row = dest_row THEN 0
                    ELSE IF dest_row > source_row THEN 1 ELSE -1
        col_step == IF source_col = dest_col THEN 0
                    ELSE IF dest_col > source_col THEN 1 ELSE -1
    IN path_clear_from(grid, source_row + row_step, source_col + col_step,
                       row_step, col_step, dest_row, dest_col)

validate_pawn_move(grid, source_row, source_col, dest_row, dest_col, color, dest_piece) ==
    LET direction == IF color = "white" THEN 1 ELSE -1
        starting_row == IF color = "white" THEN 1 ELSE 6
        row_diff == dest_row - source_row
        col_diff == Abs(dest_col - source_col)
    IN IF col_diff = 0
       THEN IF dest_piece # None THEN <<FALSE, "Pawn cannot capture forward">>
            ELSE IF row_diff = direction THEN <<TRUE, "">>
            ELSE IF row_diff = 2 * direction /\ source_row = starting_row
                 THEN LET middle_row == source_row + direction IN
                      IF Cell(grid, middle_row, source_col) = None
                      THEN <<TRUE, "">>
                      ELSE <<FALSE, "Path is blocked">>
                 ELSE <<FALSE, "Invalid pawn move">>
       ELSE IF col_diff = 1 /\ row_diff = direction
            THEN IF dest_piece # None THEN <<TRUE, "">>
                 ELSE <<FALSE, "Pawn can only move diagonally to capture">>
            ELSE <<FALSE, "Invalid pawn move">>

validate_rook_move(grid, source_row, source_col, dest_row, dest_col) ==
    IF source_row # dest_row /\ source_col # dest_col
    THEN <<FALSE, "Rook must move horizontally or vertically">>
    ELSE IF ~is_path_clear(grid, source_row, source_col, dest_row, dest_col)
         THEN <<FALSE, "Path is blocked">>
         ELSE <<TRUE, "">>

validate_knight_move(source_row, source_col, dest_row, dest_col) ==
    LET row_diff == Abs(dest_row - source_row)
        col_diff == Abs(dest_col - source_col)
    IN IF (row_diff = 2 /\ col_diff = 1) \/ (row_diff = 1 /\ col_diff = 2)
       THEN <<TRUE, "">>
       ELSE <<FALSE, "Invalid knight move (must be L-shaped)">>

validate_bishop_move(grid, source_row, source_col, dest_row, dest_col) ==
    LET row_diff == Abs(dest_row - source_row)
        col_diff == Abs(dest_col - source_col)
    IN IF row_diff # col_diff THEN <<FALSE, "Bishop must move diagonally">>
       ELSE IF ~is_path_clear(grid, source_row, source_col, dest_row, dest_col)
            THEN <<FALSE, "Path is blocked">>
            ELSE <<TRUE, "">>

validate_queen_move(grid, source_row, source_col, dest_row, dest_col) ==
    LET row_diff == Abs(dest_row - source_row)
        col_diff == Abs(dest_col - source_col)
        is_horizontal_vertical == (source_row = dest_row \/ source_col = dest_col)
        is_diagonal == (row_diff = col_diff)
    IN IF ~(is_horizontal_vertical \/ is_diagonal)
       THEN <<FALSE, "Queen must move horizontally, vertically, or diagonally">>
       ELSE IF ~is_path_clear(grid, source_row, source_col, dest_row, dest_col)
            THEN <<FALSE, "Path is blocked">>
            ELSE <<TRUE, "">>

validate_king_move(source_row, source_col, dest_row, dest_col) ==
    LET row_diff == Abs(dest_row - source_row)
        col_diff == Abs(dest_col - source_col)
    IN IF row_diff <= 1 /\ col_diff <= 1 THEN <<TRUE, "">>
       ELSE <<FALSE, "King can only move one square">>

(* is_valid_move with the test of the destination's owner moved before    *)
(* the test of source = destination, and nothing after them.               *)
is_valid_move_owner_first(h, gs, g, source, destination, current_player) ==
    LET src == position_to_indices(source)
        dst == position_to_indices(destination)
    IN IF src[1] = None \/ dst[1] = None THEN <<FALSE, "Invalid position format">>
       ELSE LET piece == get_piece(gs, g, source)
                dest_piece == get_piece(gs, g, destination)
            IN IF piece = None THEN <<FALSE, "No piece at source position">>
               ELSE IF h[piece].color # current_player THEN <<FALSE, "That's not your piece">>
               ELSE IF dest_piece # None /\ h[dest_piece].color = current_player
                    THEN <<FALSE, "Cannot capture your own piece">>
               ELSE IF src = dst THEN <<FALSE, "Source and destination are the same">>
               ELSE <<TRUE, "">>

(* MoveValidator.is_valid_move(source, destination, current_player). *)
is_valid_move(h, gs, g, source, destination, current_player) ==
    LET source_row == position_to_indices(source)[1]
        source_col == position_to_indices(source)[2]
        dest_row == position_to_indices(destination)[1]
        dest_col == position_to_indices(destination)[2]
    IN IF source_row = None \/ dest_row = None THEN <<FALSE, "Invalid position format">>
       ELSE LET piece == get_piece(gs, g, source) IN
       IF piece = None THEN <<FALSE, "No piece at source position">>
       ELSE IF h[piece].color # current_player THEN <<FALSE, "That's not your piece">>
       ELSE IF source_row = dest_row /\ source_col = dest_col
            THEN <<FALSE, "Source and destination are the same">>
       ELSE LET dest_piece == get_piece(gs, g, destination) IN
       IF dest_piece # None /\ h[dest_piece].color = current_player
       THEN <<FALSE, "Cannot capture your own piece">>
       ELSE CASE h[piece].piece_type = "pawn" ->
                   validate_pawn_move(gs[g], source_row, source_col, dest_row, dest_col,
                                      h[piece].color, dest_piece)
              [] h[piece].piece_type = "rook" ->
                   validate_rook_move(gs[g], source_row, source_col, dest_row, dest_col)
              [] h[piece].piece_type = "knight" ->
                   validate_knight_move(source_row, source_col, dest_row, dest_col)
              [] h[piece].piece_type = "bishop" ->
                   validate_bishop_move(gs[g], source_row, source_col, dest_row, dest_col)
              [] h[piece].piece_type = "queen" ->
                   validate_queen_move(gs[g], source_row, source_col, dest_row, dest_col)
              [] h[piece].piece_type = "king" ->
                   validate_king_move(source_row, source_col, dest_row, dest_col)
              [] OTHER -> <<FALSE, "Unknown piece type">>

-----------------------------------------------------------------------------
(* The check detector (utils/check_detector.py), on the board whose grid   *)
(* is g.                                                                   *)

(* The squares in the order of `for row in range(8): for col in range(8)`. *)
ScanOrder == [k \in 1..64 |-> <<(k - 1) \div 8, (k - 1) % 8>>]

indices_to_position(row, col) ==
    LET file == chr(ord("A") + col)
        rank == str(row + 1)
    IN <<file>> \o rank

(* find_king without the test of the color. *)
find_king_of_any_color(h, gs, g, color) ==
    LET IsKing(sq) == LET piece == Cell(gs[g], sq[1], sq[2]) IN
                      piece # None /\ h[piece].piece_type = "king"
    IN The({IF found = {} THEN <<None, None>>
            ELSE ScanOrder[CHOOSE k \in found : \A j \in found : k <= j] :
               found \in {{k \in 1..64 : IsKing(ScanOrder[k])}}})

(* The first king of color in scan order, or (None, None). *)
find_king(h, gs, g, color) ==
    LET IsKing(sq) == LET piece == Cell(gs[g], sq[1], sq[2]) IN
                      piece # None /\ h[piece].piece_type = "king" /\ h[piece].color = color
    IN The({IF found = {} THEN <<None, None>>
            ELSE ScanOrder[CHOOSE k \in found : \A j \in found : k <= j] :
               found \in {{k \in 1..64 : IsKing(ScanOrder[k])}}})

(* is_in_check when find_king returns (None, None). *)
is_in_check_king_missing(h, gs, g, color) == FALSE

is_in_check(h, gs, g, color) ==
    \E king \in {find_king(h, gs, g, color)} :
        LET king_row == king[1]
            king_col == king[2]
        IN IF king_row = None THEN FALSE
           ELSE \E king_pos \in {indices_to_position(king_row, king_col)} :
                LET enemy_color == IF color = "white" THEN "black" ELSE "white"
                IN \E sq \in Squares :
                     LET piece == Cell(gs[g], sq[1], sq[2]) IN
                     /\ ~(piece = None \/ h[piece].color # enemy_color)
                     /\ is_valid_move(h, gs, g, indices_to_position(sq[1], sq[2]),
                                      king_pos, enemy_color)[1]

-----------------------------------------------------------------------------
(* MoveValidator.generate_valid_moves(color) -> (legal_moves,              *)
(* self_check_moves): for every piece of color and every destination of    *)
(* its get_legal_moves(), the position after move_piece is tested with     *)
(* is_in_check(color); the move, written "<source> <destination>", goes to *)
(* legal_moves when the king is safe and to self_check_moves otherwise.    *)

move_text(source, destination) == source \o <<" ">> \o destination

(* The pseudo-legal moves of color as (source, destination) pairs of texts. *)
candidate_moves(h, gs, g, color) ==
    Flatten([k \in 1..64 |->
        LET piece == Cell(gs[g], ScanOrder[k][1], ScanOrder[k][2]) IN
        IF piece # None /\ h[piece].color = color
        THEN The({[i \in 1..Len(destinations) |->
                     <<indices_to_uci(ScanOrder[k][1], ScanOrder[k][2]), destinations[i]>>] :
                    destinations \in {get_legal_moves(h, gs, piece)}})
        ELSE <<>>])

(* is_in_check(color) on the grid produced by move_piece(source, destination). *)
leaves_king_attacked(h, gs, g, color, source, destination) ==
    \E after \in {move_piece(h, gs, g, source, destination)} :
        is_in_check(after.heap, after.grids, after.new_grid, color)

generate_valid_moves_unfiltered(h, gs, g, color) ==
    The({<< [i \in 1..Len(candidates) |-> move_text(candidates[i][1], candidates[i][2])],
            <<>> >> :
           candidates \in {candidate_moves(h, gs, g, color)}})

generate_valid_moves(h, gs, g, color) ==
    LET Safe(t) == ~t.check
        Unsafe(t) == t.check
        Texts(list) == [i \in 1..Len(list) |-> list[i].text]
    IN The({<< Texts(SelectSeq(tagged, Safe)), Texts(SelectSeq(tagged, Unsafe)) >> :
              tagged \in {List([i \in 1..Len(candidates) |->
                                  [text  |-> move_text(candidates[i][1], candidates[i][2]),
                                   check |-> leaves_king_attacked(h, gs, g, color,
                                                 candidates[i][1], candidates[i][2])]]) :
                            candidates \in {candidate_moves(h, gs, g, color)}}})

-----------------------------------------------------------------------------
(* Positions.  A position is built on grid object 0, either by Board() or  *)
(* the way the tests build one: an empty grid on which the listed pieces   *)
(* are placed at uci_to_indices(position), every piece reading that grid.  *)

clear_board_and_set_pieces(pieces_to_set) ==
    LET At(sq) == {i \in 1..Len(pieces_to_set) : uci_to_indices(pieces_to_set[i][1]) = sq}
        Last(sq) == CHOOSE i \in At(sq) : \A j \in At(sq) : j <= i
        placed == {sq \in Squares : At(sq) # {}}
    IN [heap |-> Table([id \in {PieceId(0, sq[1], sq[2]) : sq \in placed} |->
                    LET row == (id - 1) \div 8
                        col == (id - 1) % 8
                        entry == pieces_to_set[Last(<<row, col>>)]
                    IN NewPiece(entry[2], entry[3], row, col, 0)]),
        grid |-> List([r \in 1..8 |-> List([c \in 1..8 |->
                    IF <<r - 1, c - 1>> \in placed THEN PieceId(0, r - 1, c - 1)
                    ELSE None])])]

InitialPosition == setup_initial_position(0)

(* A white rook pinned on the E file by a black queen. *)
PinPosition ==
    clear_board_and_set_pieces(<< << <<"E","1">>, "king", "white" >>,
                                  << <<"E","4">>, "rook", "white" >>,
                                  << <<"E","8">>, "queen", "black" >>,
                                  << <<"A","8">>, "king", "black" >> >>)

(* A white king whose second rank is swept by a black rook. *)
AttackedRankPosition ==
    clear_board_and_set_pieces(<< << <<"E","1">>, "king", "white" >>,
                                  << <<"A","2">>, "rook", "black" >>,
                                  << <<"E","8">>, "king", "black" >> >>)

(* Black to move has no safe move and is not attacked. *)
StalematePosition ==
    clear_board_and_set_pieces(<< << <<"A","8">>, "king", "black" >>,
                                  << <<"C","7">>, "king", "white" >>,
                                  << <<"B","6">>, "queen", "white" >> >>)

(* Before the mating capture: the white queen on H5 takes the pawn on F7. *)
BeforeMatePosition ==
    clear_board_and_set_pieces(<< << <<"E","1">>, "king", "white" >>,
                                  << <<"H","5">>, "queen", "white" >>,
                                  << <<"C","4">>, "bishop", "white" >>,
                                  << <<"E","8">>, "king", "black" >>,
                                  << <<"F","7">>, "pawn", "black" >>,
                                  << <<"D","8">>, "queen", "black" >> >>)

(* A white pawn one step from promotion next to the black king. *)
PromotionPosition ==
    clear_board_and_set_pieces(<< << <<"E","7">>, "pawn", "white" >>,
                                  << <<"C","8">>, "king", "black" >>,
                                  << <<"A","1">>, "king", "white" >> >>)

(* The position after board.move_piece("H5", "F7") on BeforeMatePosition   *)
(* and board.set_grid(new_grid): heap, grids and the board's grid id.      *)
MatePosition ==
    The({[heap |-> after.heap, grids |-> after.grids, board |-> after.new_grid] :
           after \in {move_piece(BeforeMatePosition.heap, (0 :> BeforeMatePosition.grid), 0,
                                 <<"H","5">>, <<"F","7">>)}})

Fresh(position) == [heap |-> position.heap, grids |-> (0 :> position.grid), board |-> 0]

Positions ==
    { Fresh(InitialPosition), Fresh(PinPosition), Fresh(AttackedRankPosition),
      Fresh(StalematePosition), Fresh(BeforeMatePosition), Fresh(PromotionPosition),
      MatePosition }

-----------------------------------------------------------------------------
(* The state machine.  Under Spec one call is made on a position and its   *)
(* result recorded; under SpecSeq move_piece is called again and again,    *)
(* each result committed with Board.set_grid.                              *)

MaxMoves == 2

NoCall == [op |-> "none", source |-> <<>>, destination |-> <<>>, color |-> "",
           row |-> None, col |-> None, text |-> <<>>]

NoRet == [raised |-> "", new_grid |-> None, captured |-> None,
          is_valid |-> FALSE, message |-> "",
          legal_moves |-> <<>>, self_check_moves |-> <<>>, in_check |-> FALSE,
          uci |-> <<>>, indices |-> <<None, None>>, board_indices |-> <<None, None>>,
          is_none |-> FALSE, king |-> <<None, None>>,
          prompted |-> FALSE, parsed |-> FALSE]

(* Game.__init__: white moves first, the game is not over. *)
NewGame == [current_player |-> "white", game_over |-> FALSE]

Init ==
    \E position \in Positions :
        /\ heap = position.heap
        /\ grids = position.grids
        /\ board = position.board
        /\ call = NoCall
        /\ ret = NoRet
        /\ moves = 0
        /\ game = NewGame

(* new_grid, captured = board.move_piece(source, destination) *)
CallMovePiece(source, destination) ==
    /\ call.op = "none"
    /\ \E r \in {move_piece(heap, grids, board, source, destination)} :
       /\ heap' = r.heap
       /\ grids' = r.grids
       /\ ret' = [NoRet EXCEPT !.raised = r.raised, !.new_grid = r.new_grid,
                               !.captured = r.captured]
    /\ call' = [NoCall EXCEPT !.op = "move_piece", !.source = source,
                              !.destination = destination]
    /\ UNCHANGED <<board, moves, game>>

(* is_valid, error = move_validator.is_valid_move(source, destination, color) *)
CallIsValidMove(source, destination, color) ==
    /\ call.op = "none"
    /\ \E r \in {is_valid_move(heap, grids, board, source, destination, color)} :
       ret' = [NoRet EXCEPT !.is_valid = r[1], !.message = r[2]]
    /\ call' = [NoCall EXCEPT !.op = "is_valid_move", !.source = source,
                              !.destination = destination, !.color = color]
    /\ UNCHANGED <<heap, grids, board, moves, game>>

(* legal_moves, self_check_moves = move_validator.generate_valid_moves(color), *)
(* together with is_in_check(color) on the same board.                         *)
CallGenerateValidMoves(color) ==
    /\ call.op = "none"
    /\ \E r \in {generate_valid_moves(heap, grids, board, color)} :
       ret' = [NoRet EXCEPT !.legal_moves = r[1], !.self_check_moves = r[2],
                            !.in_check = is_in_check(heap, grids, board, color)]
    /\ call' = [NoCall EXCEPT !.op = "generate_valid_moves", !.color = color]
    /\ UNCHANGED <<heap, grids, board, moves, game>>

(* uci = indices_to_uci(row, col); indices = uci_to_indices(uci) *)
CallCodec(row, col) ==
    /\ call.op = "none"
    /\ \E uci \in {indices_to_uci(row, col)} :
       ret' = [NoRet EXCEPT !.uci = uci, !.indices = uci_to_indices(uci)]
    /\ call' = [NoCall EXCEPT !.op = "codec", !.row = row, !.col = col]
    /\ UNCHANGED <<heap, grids, board, moves, game>>

(* The texts handed to the codec: every text of at most MaxLen characters  *)
(* over file letters in both cases, a letter past H, rank digits, the      *)
(* digits past both ends and a blank.                                      *)
MaxLen == 3

ParseAlphabet == {"A", "h", "I", "1", "8", "0", "9", " "}

ParseTexts == UNION {[1..n -> ParseAlphabet] : n \in 0..MaxLen}

(* indices = StaticChessMethods.uci_to_indices(text);                      *)
(* board_indices = board.position_to_indices(text)                         *)
CallUciToIndices(text) ==
    /\ call.op = "none"
    /\ ret' = [NoRet EXCEPT !.indices = uci_to_indices(text),
                            !.board_indices = position_to_indices(text)]
    /\ call' = [NoCall EXCEPT !.op = "uci_to_indices", !.text = text]
    /\ UNCHANGED <<heap, grids, board, moves, game>>

(* The indices handed to indices_to_uci: -MaxIndex..MaxIndex. *)
MaxIndex == 9

AnyIndices == (0 - MaxIndex)..MaxIndex

(* uci = StaticChessMethods.indices_to_uci(row, col) for any integers: it  *)
(* raises IndexError at files[col] or returns a text; no statement of it   *)
(* returns None.                                                           *)
CallIndicesToUci(row, col) ==
    /\ call.op = "none"
    /\ ret' = IF indices_to_uci_raises(row, col)
              THEN [NoRet EXCEPT !.raised = "IndexError"]
              ELSE [NoRet EXCEPT !.uci = indices_to_uci(row, col), !.is_none = FALSE]
    /\ call' = [NoCall EXCEPT !.op = "indices_to_uci", !.row = row, !.col = col]
    /\ UNCHANGED <<heap, grids, board, moves, game>>

(* The square texts handed to the engine: every valid square. *)
SquareTexts == {indices_to_uci(sq[1], sq[2]) : sq \in Squares}

(* Texts the codec refuses: empty, too short, off the board. *)
MalformedTexts == {<<>>, <<"E">>, <<"I", "9">>}

(* A call is made on a position on which none was made yet. *)
Next ==
    /\ call.op = "none"
    /\ \/ \E source \in SquareTexts, destination \in SquareTexts :
            CallMovePiece(source, destination)
       \/ \E source \in SquareTexts \cup MalformedTexts,
             destination \in SquareTexts \cup MalformedTexts, color \in Colors :
            CallIsValidMove(source, destination, color)
       \/ \E color \in Colors : CallGenerateValidMoves(color)
       \/ \E row \in Indices, col \in Indices : CallCodec(row, col)
       \/ \E text \in ParseTexts : CallUciToIndices(text)
       \/ \E row \in AnyIndices, col \in AnyIndices : CallIndicesToUci(row, col)

Spec == Init /\ [][Next]_vars

(* Sequences of moves from the initial position. *)
InitSeq ==
    /\ heap = InitialPosition.heap
    /\ grids = (0 :> InitialPosition.grid)
    /\ board = 0
    /\ call = NoCall
    /\ ret = NoRet
    /\ moves = 0
    /\ game = NewGame

(* Moves no validation would accept: promotions and king captures from     *)
(* anywhere, a piece moved onto its own square, a non-pawn onto the last   *)
(* row, a call on an empty square.                                         *)
UnvalidatedMoves ==
    { << <<"A","2">>, <<"A","8">> >>, << <<"E","2">>, <<"E","8">> >>,
      << <<"H","7">>, <<"H","1">> >>, << <<"D","1">>, <<"E","8">> >>,
      << <<"E","8">>, <<"E","1">> >>, << <<"E","1">>, <<"E","1">> >>,
      << <<"B","1">>, <<"B","8">> >>, << <<"E","4">>, <<"E","5">> >>,
      << <<"C","7">>, <<"C","2">> >> }

(* The pseudo-legal moves of color on the board: the pairs (source,         *)
(* destination) with destination in get_legal_moves() of a piece of color  *)
(* standing on source.                                                     *)
PseudoLegalOf(color) ==
    UNION {The({{<<indices_to_uci(sq[1], sq[2]), destinations[i]>> :
                    i \in 1..Len(destinations)} :
                 destinations \in {get_legal_moves(heap, grids, Cell(grids[board], sq[1], sq[2]))}}) :
             sq \in {s \in Squares : /\ Cell(grids[board], s[1], s[2]) # None
                                     /\ heap[Cell(grids[board], s[1], s[2])].color = color}}

(* The pseudo-legal moves of both colors on the board. *)
PseudoLegalMoves == PseudoLegalOf("white") \cup PseudoLegalOf("black")

(* new_grid, captured = board.move_piece(source, destination);             *)
(* board.set_grid(new_grid)                                                *)
MovePieceStep(source, destination) ==
    /\ moves < MaxMoves
    /\ \E r \in {move_piece(heap, grids, board, source, destination)} :
       /\ heap' = r.heap
       /\ grids' = r.grids
       /\ board' = IF r.raised = "" THEN r.new_grid ELSE board
       /\ ret' = [NoRet EXCEPT !.raised = r.raised, !.new_grid = r.new_grid,
                               !.captured = r.captured]
    /\ call' = [NoCall EXCEPT !.op = "move_piece", !.source = source,
                              !.destination = destination]
    /\ moves' = moves + 1
    /\ UNCHANGED game

NextSeq ==
    /\ moves < MaxMoves
    /\ \E m \in PseudoLegalMoves \cup UnvalidatedMoves : MovePieceStep(m[1], m[2])

SpecSeq == InitSeq /\ [][NextSeq]_vars

-----------------------------------------------------------------------------
(* Small boards for the pieces and the check detector: a grid built cell   *)
(* by cell, the way the unit tests build one.  `pieces` maps the occupied  *)
(* squares to [piece_type, color]; every piece reads the grid built.       *)

grid_of(pieces) ==
    [heap |-> Table([id \in {PieceId(0, sq[1], sq[2]) : sq \in DOMAIN pieces} |->
                LET row == (id - 1) \div 8
                    col == (id - 1) % 8
                IN NewPiece(pieces[<<row, col>>].piece_type, pieces[<<row, col>>].color,
                            row, col, 0)]),
     grid |-> List([r \in 1..8 |-> List([c \in 1..8 |->
                IF <<r - 1, c - 1>> \in DOMAIN pieces THEN PieceId(0, r - 1, c - 1)
                ELSE None])])]

(* Where the piece under study stands: a pawn on the two home ranks and in *)
(* the middle of the board, another piece in a corner and in the middle.   *)
SubjectSquares(piece_type) ==
    IF piece_type = "pawn" THEN {<<1, 3>>, <<3, 4>>, <<6, 3>>} ELSE {<<0, 0>>, <<3, 4>>}

(* The other pieces stand at most Reach rows and columns away from it. *)
Reach == 2

Near(sq) == {t \in Squares \ {sq} : Abs(t[1] - sq[1]) <= Reach /\ Abs(t[2] - sq[2]) <= Reach}

(* move_piece replaces a pawn that reaches its last row by a queen, so no  *)
(* board holds a white pawn on row 7 or a black pawn on row 0.             *)
CanStand(piece_type, color, sq) ==
    piece_type = "pawn" => IF color = "white" THEN sq[1] # 7 ELSE sq[1] # 0

Opposite(color) == IF color = "white" THEN "black" ELSE "white"

(* A piece of any type and color on a subject square; with it, or not, the *)
(* king of the other color; with them, or not, a pawn of either color.     *)
Subjects ==
    {x \in [piece_type : PieceTypes, color : Colors, square : Squares] :
        x.square \in SubjectSquares(x.piece_type)}

(* Where the other king stands, and the pawn: Absent when there is none. *)
Absent == <<None, None>>

KingsFor(subject) == {Absent} \cup Near(subject.square)

PawnsFor(subject, king) ==
    {[color |-> "white", square |-> Absent]} \cup
    {y \in [color : Colors, square : Near(subject.square) \ {king}] :
        CanStand("pawn", y.color, y.square)}

small_board(subject, king, pawn) ==
    grid_of((subject.square :> [piece_type |-> subject.piece_type, color |-> subject.color])
            @@ (IF king = Absent THEN <<>>
                ELSE (king :> [piece_type |-> "king", color |-> Opposite(subject.color)]))
            @@ (IF pawn.square = Absent THEN <<>>
                ELSE (pawn.square :> [piece_type |-> "pawn", color |-> pawn.color])))

(* The initial position after move_piece("D1", "E8"), committed: the black *)
(* king was captured.                                                      *)
KingCapturedPosition ==
    The({[heap |-> after.heap, grids |-> after.grids, board |-> after.new_grid] :
           after \in {move_piece(InitialPosition.heap, (0 :> InitialPosition.grid), 0,
                                 <<"D","1">>, <<"E","8">>)}})

(* A board of the study: a small board, a position of the tests or the     *)
(* board without its black king.                                          *)
InitPieces ==
    /\ \/ \E position \in Positions \cup {KingCapturedPosition} :
            /\ heap = position.heap
            /\ grids = position.grids
            /\ board = position.board
       \/ \E subject \in Subjects :
            \E king \in KingsFor(subject) :
                \E pawn \in PawnsFor(subject, king) :
                    \E built \in {small_board(subject, king, pawn)} :
                        /\ heap = built.heap
                        /\ grids = (0 :> built.grid)
                        /\ board = 0
    /\ call = NoCall
    /\ ret = NoRet
    /\ moves = 0
    /\ game = NewGame

(* legal_moves = board.get_piece(position).get_legal_moves() *)
CallGetLegalMoves(position) ==
    /\ call.op = "none"
    /\ \E piece \in {get_piece(grids, board, position)} \ {None} :
         ret' = [NoRet EXCEPT !.legal_moves = get_legal_moves(heap, grids, piece)]
    /\ call' = [NoCall EXCEPT !.op = "get_legal_moves", !.source = position]
    /\ UNCHANGED <<heap, grids, board, moves, game>>

(* king = check_detector.find_king(color);                                 *)
(* in_check = check_detector.is_in_check(color)                            *)
CallIsInCheck(color) ==
    /\ call.op = "none"
    /\ ret' = [NoRet EXCEPT !.king = find_king(heap, grids, board, color),
                            !.in_check = is_in_check(heap, grids, board, color)]
    /\ call' = [NoCall EXCEPT !.op = "is_in_check", !.color = color]
    /\ UNCHANGED <<heap, grids, board, moves, game>>

NextPieces ==
    /\ call.op = "none"
    /\ \/ \E sq \in {t \in Squares : Cell(grids[board], t[1], t[2]) # None} :
            CallGetLegalMoves(indices_to_uci(sq[1], sq[2]))
       \/ \E color \in Colors : CallIsInCheck(color)

SpecPieces == InitPieces /\ [][NextPieces]_vars

-----------------------------------------------------------------------------
(* Validation called again and again on one board: the validator and the   *)
(* check detector hold a reference to the board and nothing else; moves    *)
(* counts the calls.                                                       *)

MaxCalls == 2

(* Squares of the positions in both cases, and a text off the board. *)
ReadTexts ==
    { <<"E", "1">>, <<"E", "2">>, <<"E", "4">>, <<"E", "8">>, <<"A", "2">>, <<"A", "8">>,
      <<"e", "7">>, <<"I", "9">> }

(* A validator that tries the move on the board itself. *)
ReadIsValidMoveOnBoard(source, destination, color) ==
    /\ moves < MaxCalls
    /\ \E r \in {is_valid_move(heap, grids, board, source, destination, color)},
          m \in {move_piece(heap, grids, board, source, destination)} :
       /\ ret' = [NoRet EXCEPT !.is_valid = r[1], !.message = r[2]]
       /\ heap' = m.heap
       /\ grids' = m.grids
       /\ board' = IF m.raised = "" THEN m.new_grid ELSE board
    /\ call' = [NoCall EXCEPT !.op = "is_valid_move", !.source = source,
                              !.destination = destination, !.color = color]
    /\ moves' = moves + 1
    /\ UNCHANGED game

(* is_valid, error = move_validator.is_valid_move(source, destination, color): *)
(* the method reads self.board and assigns to locals only.                     *)
ReadIsValidMove(source, destination, color) ==
    /\ moves < MaxCalls
    /\ \E r \in {is_valid_move(heap, grids, board, source, destination, color)} :
       ret' = [NoRet EXCEPT !.is_valid = r[1], !.message = r[2]]
    /\ call' = [NoCall EXCEPT !.op = "is_valid_move", !.source = source,
                              !.destination = destination, !.color = color]
    /\ moves' = moves + 1
    /\ UNCHANGED <<heap, grids, board, game>>

(* in_check = check_detector.is_in_check(color): reads self.board.grid and *)
(* calls is_valid_move.                                                    *)
ReadIsInCheck(color) ==
    /\ moves < MaxCalls
    /\ ret' = [NoRet EXCEPT !.king = find_king(heap, grids, board, color),
                            !.in_check = is_in_check(heap, grids, board, color)]
    /\ call' = [NoCall EXCEPT !.op = "is_in_check", !.color = color]
    /\ moves' = moves + 1
    /\ UNCHANGED <<heap, grids, board, game>>

NextRead ==
    \/ \E source \in ReadTexts, destination \in ReadTexts, color \in Colors :
         ReadIsValidMove(source, destination, color)
    \/ \E color \in Colors : ReadIsInCheck(color)

SpecRead == Init /\ [][NextRead]_vars

-----------------------------------------------------------------------------
(* The game (utils/game.py): Game.start calls play_turn while game_over is *)
(* false; moves counts the moves executed.                                 *)

MaxTurns == 6

(* parse_move without the test of the number of parts. *)
parse_move_first_two(move_input) ==
    LET parts == split_whitespace(strip(move_input))
    IN IF Len(parts) < 2 THEN [is_none |-> TRUE, source |-> <<>>, destination |-> <<>>]
       ELSE [is_none |-> FALSE, source |-> upper(parts[1]), destination |-> upper(parts[2])]

(* Game.parse_move(move_input): the two texts, or is_none for (None, None). *)
parse_move(move_input) ==
    LET stripped == strip(move_input)
        NoParts == [is_none |-> TRUE, source |-> <<>>, destination |-> <<>>]
        Two(parts) == IF Len(parts) # 2 THEN NoParts
                      ELSE [is_none |-> FALSE,
                            source |-> upper(strip(parts[1])),
                            destination |-> upper(strip(parts[2]))]
    IN IF contains(stripped, <<",", " ">>) THEN Two(split(stripped, <<",", " ">>))
       ELSE IF contains(stripped, <<",">>) THEN Two(split(stripped, <<",">>))
       ELSE IF contains(stripped, <<"-">>) THEN Two(split(stripped, <<"-">>))
       ELSE IF contains(stripped, <<" ">>) THEN Two(split_whitespace(stripped))
       ELSE NoParts

(* What the players type: the moves of a game that ends with a captured    *)
(* king (F2-F3, E7-E5, G2-G4, D8-H4, E2-E4, H4-E1) in the accepted         *)
(* formats, a move no piece can make, a square off the board, and inputs   *)
(* parse_move refuses.                                                     *)
MoveInputs ==
    { <<"F", "2", " ", "F", "3">>,
      <<"e", "7", " ", "e", "5">>,
      <<"G", "2", "-", "G", "4">>,
      <<"D", "8", ",", "H", "4">>,
      <<"E", "2", ",", " ", "E", "4">>,
      <<" ", "H", "4", " ", " ", "E", "1", " ">>,
      <<"E", "2", " ", "E", "5">>,
      <<"E", "9", " ", "E", "4">>,
      <<"E", "2">>,
      <<"E", "2", " ", "E", "4", " ", "E", "6">>,
      <<>> }

(* A player who keeps the turn. *)
same_player(current_player) == current_player

(* 'black' if self.current_player == 'white' else 'white' *)
other_player(current_player) == IF current_player = "white" THEN "black" ELSE "white"

(* A test that sees no king. *)
king_captured_never(h, captured_piece) == FALSE

(* captured_piece and captured_piece.piece_type == 'king' *)
king_captured(h, captured_piece) ==
    captured_piece # None /\ h[captured_piece].piece_type = "king"

(* Game.play_turn.  The value bound to legal_moves is what                 *)
(* generate_valid_moves returns, the pair (legal_moves, self_check_moves), *)
(* and len() is taken of that pair; move_input is read with                *)
(* input().strip() once the turn has not ended the game.                   *)
PlayTurn ==
    /\ moves < MaxTurns
    /\ \E check \in {is_in_check(heap, grids, board, game.current_player)},
          legal_moves \in {generate_valid_moves(heap, grids, board, game.current_player)} :
       \E turn \in {[NoRet EXCEPT !.in_check = check, !.legal_moves = legal_moves[1],
                                  !.self_check_moves = legal_moves[2]]} :
       IF Len(legal_moves) = 0
       THEN /\ game' = [game EXCEPT !.game_over = TRUE]
            /\ ret' = turn
            /\ call' = [NoCall EXCEPT !.op = "play_turn", !.color = game.current_player]
            /\ UNCHANGED <<heap, grids, board, moves>>
       ELSE \E move_input \in MoveInputs : \E parsed \in {parse_move(strip(move_input))} :
            /\ call' = [NoCall EXCEPT !.op = "play_turn", !.color = game.current_player,
                                      !.text = move_input, !.source = parsed.source,
                                      !.destination = parsed.destination]
            /\ IF parsed.is_none
               THEN /\ ret' = [turn EXCEPT !.prompted = TRUE]
                    /\ UNCHANGED <<heap, grids, board, moves, game>>
               ELSE \E r \in {is_valid_move(heap, grids, board, parsed.source,
                                            parsed.destination, game.current_player)} :
                    IF ~r[1]
                    THEN /\ ret' = [turn EXCEPT !.prompted = TRUE, !.parsed = TRUE,
                                               !.message = r[2]]
                         /\ UNCHANGED <<heap, grids, board, moves, game>>
                    ELSE \E m \in {move_piece(heap, grids, board, parsed.source,
                                              parsed.destination)} :
                         /\ heap' = m.heap
                         /\ grids' = m.grids
                         /\ board' = m.new_grid
                         /\ moves' = moves + 1
                         /\ ret' = [turn EXCEPT !.prompted = TRUE, !.parsed = TRUE,
                                               !.is_valid = TRUE, !.new_grid = m.new_grid,
                                               !.captured = m.captured]
                         /\ game' = IF king_captured(m.heap, m.captured)
                                    THEN [game EXCEPT !.game_over = TRUE]
                                    ELSE [game EXCEPT !.current_player =
                                             other_player(game.current_player)]

(* Game.start: `while not self.game_over: self.play_turn()`. *)
NextGame ==
    /\ ~game.game_over
    /\ PlayTurn

SpecGame == InitSeq /\ [][NextGame]_vars

-----------------------------------------------------------------------------
(* What a recorded call was made with, and on what.  A call leaves board   *)
(* and the grid it names as they were, so the position the call was made   *)
(* on is still read from grids[board] under Spec.                          *)

SourceIndices == position_to_indices(call.source)
DestIndices == position_to_indices(call.destination)
SourcePiece == get_piece(grids, board, call.source)
DestPiece == get_piece(grids, board, call.destination)
ReturnedGrid == grids[ret.new_grid]
MovedPiece == Cell(ReturnedGrid, DestIndices[1], DestIndices[2])
PromotionApplies ==
    /\ heap[SourcePiece].piece_type = "pawn"
    /\ \/ heap[SourcePiece].color = "white" /\ DestIndices[1] = 7
       \/ heap[SourcePiece].color = "black" /\ DestIndices[1] = 0
MovePieceReturned ==
    /\ call.op = "move_piece"
    /\ ret.raised = ""
    /\ call.source # call.destination
AsSet(list) == {list[i] : i \in 1..Len(list)}
KingSquares(color) ==
    {sq \in Squares : /\ Cell(grids[board], sq[1], sq[2]) # None
                      /\ heap[Cell(grids[board], sq[1], sq[2])].piece_type = "king"
                      /\ heap[Cell(grids[board], sq[1], sq[2])].color = color}
OnPosition(position) ==
    /\ heap = position.heap
    /\ grids = position.grids
    /\ board = position.board

-----------------------------------------------------------------------------
(* C1: whenever is_valid_move(source, destination, color) is called with a *)
(* move that is pseudo-legal for the piece of that color on source and     *)
(* that leaves that color's king attacked on the grid move_piece produces, *)
(* it returns failure with the message "Can't put your king in jeopardy".  *)
SelfCheckRejected ==
    ( /\ call.op = "is_valid_move"
      /\ <<call.source, call.destination>> \in PseudoLegalOf(call.color)
      /\ leaves_king_attacked(heap, grids, board, call.color, call.source, call.destination) )
    => /\ ret.is_valid = FALSE
       /\ ret.message = "Can't put your king in jeopardy"

(* C2: the two lists generate_valid_moves(color) returns partition the     *)
(* pseudo-legal moves of color.  legal_moves holds exactly the moves       *)
(* "<source> <destination>", destination in get_legal_moves() of a piece   *)
(* of color on source, for which is_in_check(color) is false on the grid   *)
(* move_piece(source, destination) produces; self_check_moves holds        *)
(* exactly those for which it is true; no move is in both lists and no     *)
(* other text is in either.                                                *)
GenerateValidMovesPartitions ==
    call.op = "generate_valid_moves" =>
        LET pseudo == PseudoLegalOf(call.color)
            unsafe == {m \in pseudo :
                         leaves_king_attacked(heap, grids, board, call.color, m[1], m[2])}
        IN /\ AsSet(ret.legal_moves) = {move_text(m[1], m[2]) : m \in pseudo \ unsafe}
           /\ AsSet(ret.self_check_moves) = {move_text(m[1], m[2]) : m \in unsafe}
           /\ AsSet(ret.legal_moves) \cap AsSet(ret.self_check_moves) = {}

(* C2 witness: for white in the pin position the rook's step along the     *)
(* pin line is listed as legal and its step off the line as self-check.    *)
GenerateValidMovesPartitionsWitness ==
    /\ call.op = "generate_valid_moves"
    /\ call.color = "white"
    /\ OnPosition(Fresh(PinPosition))
    /\ <<"E", "4", " ", "E", "3">> \in AsSet(ret.legal_moves)
    /\ <<"E", "4", " ", "C", "4">> \in AsSet(ret.self_check_moves)

(* C3: a color with no move that leaves its own king unattacked gets an    *)
(* empty legal_moves list.  For black in the stalemate position the list   *)
(* is empty and is_in_check("black") is false; for black in the position   *)
(* after the white queen's capture H5 x F7 the list is empty and           *)
(* is_in_check("black") is true.                                           *)
NoSafeMoveGivesEmptyLegalMoves ==
    call.op = "generate_valid_moves" =>
        /\ (\A m \in PseudoLegalOf(call.color) :
               leaves_king_attacked(heap, grids, board, call.color, m[1], m[2]))
           => ret.legal_moves = <<>>
        /\ (call.color = "black" /\ OnPosition(Fresh(StalematePosition)))
           => (ret.legal_moves = <<>> /\ ~ret.in_check)
        /\ (call.color = "black" /\ OnPosition(MatePosition))
           => (ret.legal_moves = <<>> /\ ret.in_check)

(* C3 witness: black was asked for its moves after H5 x F7; it has         *)
(* pseudo-legal moves, all of them listed as self-check, and is in check.  *)
NoSafeMoveGivesEmptyLegalMovesWitness ==
    /\ call.op = "generate_valid_moves"
    /\ call.color = "black"
    /\ OnPosition(MatePosition)
    /\ get_piece(grids, board, <<"F", "7">>) # None
    /\ heap[get_piece(grids, board, <<"F", "7">>)].piece_type = "queen"
    /\ ret.self_check_moves # <<>>
    /\ ret.legal_moves = <<>>
    /\ ret.in_check

MovePieceMovesOnePiece ==
    ( /\ call.op = "move_piece"
      /\ call.source # call.destination
      /\ SourcePiece # None )
    => /\ ret.raised = ""
       /\ MovedPiece # None
       /\ heap[MovedPiece].color = heap[SourcePiece].color
       /\ ~PromotionApplies => heap[MovedPiece].piece_type = heap[SourcePiece].piece_type
       /\ heap[MovedPiece].row = DestIndices[1]
       /\ heap[MovedPiece].col = DestIndices[2]
       /\ Cell(ReturnedGrid, SourceIndices[1], SourceIndices[2]) = None
       /\ \A sq \in Squares \ {SourceIndices, DestIndices} :
            LET before == Cell(grids[board], sq[1], sq[2])
                after == Cell(ReturnedGrid, sq[1], sq[2])
            IN IF before = None THEN after = None
               ELSE /\ after # None
                    /\ heap[after].piece_type = heap[before].piece_type
                    /\ heap[after].color = heap[before].color
       /\ IF DestPiece = None THEN ret.captured = None
          ELSE /\ ret.captured # None
               /\ heap[ret.captured].piece_type = heap[DestPiece].piece_type
               /\ heap[ret.captured].color = heap[DestPiece].color
               /\ heap[ret.captured].row = heap[DestPiece].row
               /\ heap[ret.captured].col = heap[DestPiece].col

(* C5 witness: in the initial position the white queen was moved from D1   *)
(* onto the black king on E8, which was returned as captured.              *)
MovePieceMovesOnePieceWitness ==
    /\ MovePieceReturned
    /\ grids[board] = InitialPosition.grid
    /\ call.source = <<"D", "1">>
    /\ call.destination = <<"E", "8">>
    /\ heap[MovedPiece].piece_type = "queen"
    /\ ret.captured # None
    /\ heap[ret.captured].piece_type = "king"

(* C6: move_piece called with a source square that holds no piece returns  *)
(* a null board and no captured piece as an ordinary return value, not an  *)
(* exception.                                                              *)
EmptySourceReturnsNull ==
    (call.op = "move_piece" /\ SourcePiece = None)
    => /\ ret.raised = ""
       /\ ret.new_grid = None
       /\ ret.captured = None

(* C7: forced promotion.  When move_piece moves a white pawn onto row 7 or *)
(* a black pawn onto row 0, capturing or not, the destination of the       *)
(* returned grid holds a queen of the pawn's color whose row and col are   *)
(* the destination's and whose grid is the returned grid; a pawn moved     *)
(* onto another row stays a pawn and a non-pawn keeps its type on every    *)
(* row (source and destination being different squares).                   *)
ForcedPromotion ==
    (MovePieceReturned /\ SourcePiece # None)
    => IF PromotionApplies
       THEN /\ heap[MovedPiece].piece_type = "queen"
            /\ heap[MovedPiece].color = heap[SourcePiece].color
            /\ heap[MovedPiece].row = DestIndices[1]
            /\ heap[MovedPiece].col = DestIndices[2]
            /\ heap[MovedPiece].grid = ret.new_grid
       ELSE heap[MovedPiece].piece_type = heap[SourcePiece].piece_type

(* C7 witness: the white pawn on E7 was moved to E8 next to the black king *)
(* on C8; the queen on E8 of the returned grid attacks the king at once.   *)
ForcedPromotionWitness ==
    /\ MovePieceReturned
    /\ SourcePiece # None
    /\ heap[SourcePiece].piece_type = "pawn"
    /\ call.source = <<"E", "7">>
    /\ call.destination = <<"E", "8">>
    /\ heap[MovedPiece].piece_type = "queen"
    /\ InList(<<"C", "8">>, get_legal_moves(heap, grids, MovedPiece))
    /\ is_in_check(heap, grids, ret.new_grid, "black")

(* C8: along every sequence of move_piece calls from the initial position, *)
(* each applied to the grid the previous one returned, every piece p found *)
(* at grid[r][c] of the current grid has p.row = r and p.col = c and reads *)
(* the current grid and no earlier one.                                    *)
PiecesKnowTheirSquare ==
    \A sq \in Squares :
        LET p == Cell(grids[board], sq[1], sq[2]) IN
        p # None => /\ heap[p].row = sq[1]
                    /\ heap[p].col = sq[2]
                    /\ heap[p].grid = board

(* C8 witness: two moves were made, the white pawn A2 onto A8 and the      *)
(* queen it became onto B8; that queen stands on B8 of the current grid,   *)
(* which is the third grid built.                                          *)
PiecesKnowTheirSquareWitness ==
    /\ moves = 2
    /\ board = 0
    /\ call.source = <<"A", "8">>
    /\ call.destination = <<"B", "8">>
    /\ Cell(grids[board], 7, 1) # None
    /\ heap[Cell(grids[board], 7, 1)].piece_type = "queen"
    /\ heap[Cell(grids[board], 7, 1)].color = "white"
    /\ heap[Cell(grids[board], 7, 1)].col = 1
    /\ Cell(grids[board], 7, 0) = None
    /\ Cell(grids[board], 1, 0) = None

(* C9: every board reached from the initial position by move_piece calls,  *)
(* validated or not, has at most one king of each color, and no call       *)
(* raises the number of kings of a color.                                  *)
AtMostOneKing ==
    /\ [](\A color \in Colors : Cardinality(KingSquares(color)) <= 1)
    /\ [][\A color \in Colors :
            Cardinality(KingSquares(color)') <= Cardinality(KingSquares(color))]_vars

(* C9 witness: the black king was captured on E8 and black has no king,    *)
(* white still has its one.                                                *)
AtMostOneKingWitness ==
    /\ ret.captured # None
    /\ heap[ret.captured].piece_type = "king"
    /\ heap[ret.captured].color = "black"
    /\ KingSquares("black") = {}
    /\ KingSquares("white") = {<<0, 4>>}

(* C10: codec round trip.  For every row and col in 0..7,                  *)
(* uci_to_indices(indices_to_uci(row, col)) = (row, col); no other square  *)
(* gives the same text; row 0 is written as rank 1 and col 0 as file A.    *)
CodecRoundTrip ==
    call.op = "codec" =>
        /\ ret.indices = <<call.row, call.col>>
        /\ \A sq \in Squares :
              indices_to_uci(sq[1], sq[2]) = ret.uci => sq = <<call.row, call.col>>
        /\ Len(ret.uci) = 2
        /\ call.row = 0 <=> ret.uci[2] = "1"
        /\ call.col = 0 <=> ret.uci[1] = "A"

(* C10 witness: (7, 0) was written as "A8" and read back as (7, 0). *)
CodecRoundTripWitness ==
    /\ call.op = "codec"
    /\ call.row = 7
    /\ call.col = 0
    /\ ret.uci = <<"A", "8">>
    /\ ret.indices = <<7, 0>>

(* C11: uci_to_indices and Board.position_to_indices return (None, None), *)
(* without raising, for every text that after strip() and upper() is not   *)
(* exactly one file letter A..H followed by one rank digit 1..8 (the empty *)
(* text and texts of any other length included); for the others they       *)
(* return (rank - 1, index of the file letter).                            *)
MalformedTextGivesNone ==
    call.op = "uci_to_indices" =>
        LET p == upper(strip(call.text))
            accepted == /\ Len(p) = 2
                        /\ p[1] \in {"A", "B", "C", "D", "E", "F", "G", "H"}
                        /\ p[2] \in {"1", "2", "3", "4", "5", "6", "7", "8"}
        IN /\ ret.raised = ""
           /\ ret.board_indices = ret.indices
           /\ IF accepted
              THEN ret.indices = << (CHOOSE rank \in 1..8 : RankDigits[rank] = p[2]) - 1,
                                    (CHOOSE file \in 1..8 : FileLetters[file] = p[1]) - 1 >>
              ELSE ret.indices = <<None, None>>

(* C11 witness: "h8 " was read as (7, 7). *)
MalformedTextGivesNoneWitness ==
    /\ call.op = "uci_to_indices"
    /\ call.text = <<"h", "8", " ">>
    /\ ret.indices = <<7, 7>>
    /\ ret.board_indices = <<7, 7>>


(* C12: indices_to_uci(row, col) returns None, without raising and        *)
(* without producing a square name, whenever row or col is outside 0..7.   *)
OutOfRangeIndicesGiveNone ==
    ( /\ call.op = "indices_to_uci"
      /\ (call.row \notin Indices \/ call.col \notin Indices) )
    => /\ ret.raised = ""
       /\ ret.is_none
       /\ ret.uci = <<>>

-----------------------------------------------------------------------------
(* What stands on the board a recorded call was made on. *)

PieceAt(sq) == Cell(grids[board], sq[1], sq[2])
Occupied(sq) == PieceAt(sq) # None
HoldsColor(sq, color) == Occupied(sq) /\ heap[PieceAt(sq)].color = color
HoldsType(sq, piece_type) == Occupied(sq) /\ heap[PieceAt(sq)].piece_type = piece_type
EnemySquares(color) == {sq \in Squares : Occupied(sq) /\ heap[PieceAt(sq)].color # color}
(* The squares strictly between two squares of one row, column or diagonal. *)
Between(from, to) ==
    IF from[1] = to[1] \/ from[2] = to[2] \/ Abs(from[1] - to[1]) = Abs(from[2] - to[2])
    THEN {sq \in Squares :
            /\ sq # from
            /\ sq # to
            /\ (sq[1] - from[1]) * (to[2] - from[2]) = (sq[2] - from[2]) * (to[1] - from[1])
            /\ (sq[1] - from[1]) * (sq[1] - to[1]) <= 0
            /\ (sq[2] - from[2]) * (sq[2] - to[2]) <= 0}
    ELSE {}

(* C13: on a board without a king of the given color find_king returns    *)
(* (None, None) and is_in_check returns false, without raising, whatever   *)
(* pieces of the other color are on the board.                             *)
MissingKingTolerated ==
    (call.op = "is_in_check" /\ KingSquares(call.color) = {})
    => /\ ret.raised = ""
       /\ ret.king = <<None, None>>
       /\ ret.in_check = FALSE

(* C13 witness: is_in_check("black") was asked on the board on which the   *)
(* white queen has captured the black king on E8.                          *)
MissingKingToleratedWitness ==
    /\ call.op = "is_in_check"
    /\ call.color = "black"
    /\ OnPosition(KingCapturedPosition)
    /\ KingSquares("black") = {}
    /\ HoldsType(<<7, 4>>, "queen")
    /\ HoldsColor(<<7, 4>>, "white")
    /\ ret.king = <<None, None>>
    /\ ~ret.in_check

ReasonsInOrder(format_message) ==
    call.op = "is_valid_move" =>
        IF SourceIndices = <<None, None>> \/ DestIndices = <<None, None>>
        THEN ~ret.is_valid /\ ret.message = format_message
        ELSE IF SourcePiece = None
        THEN ~ret.is_valid /\ ret.message = "No piece at source position"
        ELSE IF heap[SourcePiece].color # call.color
        THEN ~ret.is_valid /\ ret.message = "That's not your piece"
        ELSE IF SourceIndices = DestIndices
        THEN ~ret.is_valid /\ ret.message = "Source and destination are the same"
        ELSE IF DestPiece # None /\ heap[DestPiece].color = call.color
        THEN ~ret.is_valid /\ ret.message = "Cannot capture your own piece"
        ELSE /\ ret.message \notin {format_message, "No piece at source position",
                                    "That's not your piece",
                                    "Source and destination are the same",
                                    "Cannot capture your own piece"}
             /\ ret.is_valid <=> ret.message = ""

Straight(from, to) == from # to /\ (from[1] = to[1] \/ from[2] = to[2])
Diagonal(from, to) == from # to /\ Abs(from[1] - to[1]) = Abs(from[2] - to[2])
OnLineOf(piece_type, from, to) ==
    CASE piece_type = "rook"   -> Straight(from, to)
      [] piece_type = "bishop" -> Diagonal(from, to)
      [] piece_type = "queen"  -> Straight(from, to) \/ Diagonal(from, to)
      [] OTHER -> FALSE
(* The texts of a set of squares. *)
TextsOf(squares) == {indices_to_uci(sq[1], sq[2]) : sq \in squares}
(* The piece get_legal_moves() was called on. *)
Asked(piece_type) == call.op = "get_legal_moves" /\ HoldsType(SourceIndices, piece_type)

KnightJump(from, to) ==
    <<Abs(from[1] - to[1]), Abs(from[2] - to[2])>> \in {<<1, 2>>, <<2, 1>>}
KingStep(from, to) ==
    from # to /\ Abs(from[1] - to[1]) <= 1 /\ Abs(from[2] - to[2]) <= 1

(* C17: a knight's destinations are the squares of the board at its eight   *)
(* jumps that hold no piece of its color, and a king's are the squares of  *)
(* the board one step away that hold no piece of its color; what stands on *)
(* any other square does not enter.                                        *)
KnightAndKingTargets ==
    /\ Asked("knight") =>
          AsSet(ret.legal_moves) =
              TextsOf({to \in Squares : /\ KnightJump(SourceIndices, to)
                                        /\ ~HoldsColor(to, heap[SourcePiece].color)})
    /\ Asked("king") =>
          AsSet(ret.legal_moves) =
              TextsOf({to \in Squares : /\ KingStep(SourceIndices, to)
                                        /\ ~HoldsColor(to, heap[SourcePiece].color)})

(* C17 witness: the knight on B1 of the initial position, behind its pawns  *)
(* and between a rook and a bishop, has A3 and C3, and not D2 where its own *)
(* pawn stands.                                                            *)
KnightAndKingTargetsWitness ==
    /\ Asked("knight")
    /\ call.source = <<"B", "1">>
    /\ grids[board] = InitialPosition.grid
    /\ \A to \in Squares : KingStep(<<0, 1>>, to) => Occupied(to)
    /\ HoldsColor(<<1, 3>>, "white")
    /\ AsSet(ret.legal_moves) = {<<"A", "3">>, <<"C", "3">>}

(* A pawn's direction, and the squares one and two steps ahead of it. *)
Direction(color) == IF color = "white" THEN 1 ELSE -1
HomeRow(color) == IF color = "white" THEN 1 ELSE 6
OneStep(from, color) == <<from[1] + Direction(color), from[2]>>
TwoStep(from, color) == <<from[1] + 2 * Direction(color), from[2]>>

TwoStepNeedsEmptyPath ==
    Asked("pawn") =>
        LET from == SourceIndices
            color == heap[SourcePiece].color
            one == OneStep(from, color)
            two == TwoStep(from, color)
        IN /\ (two \in Squares /\ InList(indices_to_uci(two[1], two[2]), ret.legal_moves))
                => (from[1] = HomeRow(color) /\ ~Occupied(one))
           /\ (from[1] = HomeRow(color) /\ Occupied(one))
                => /\ ~InList(indices_to_uci(one[1], one[2]), ret.legal_moves)
                   /\ ~InList(indices_to_uci(two[1], two[2]), ret.legal_moves)

(* C20: a pawn on its home row whose square one step ahead is empty and     *)
(* whose square two steps ahead is occupied lists the first and not the    *)
(* second; a pawn that is not on its home row lists squares of the row     *)
(* ahead of it only, so never the square two steps ahead.                  *)
TwoStepNeedsEmptyTarget ==
    Asked("pawn") =>
        LET from == SourceIndices
            color == heap[SourcePiece].color
            one == OneStep(from, color)
            two == TwoStep(from, color)
        IN /\ (from[1] = HomeRow(color) /\ ~Occupied(one) /\ Occupied(two))
                => /\ InList(indices_to_uci(one[1], one[2]), ret.legal_moves)
                   /\ ~InList(indices_to_uci(two[1], two[2]), ret.legal_moves)
           /\ from[1] # HomeRow(color)
                => AsSet(ret.legal_moves) \subseteq
                      TextsOf({to \in Squares : to[1] = from[1] + Direction(color)})

(* C20 witness: a white pawn on D2 and a black pawn on D4 with D3 empty:    *)
(* the white pawn's only destination is D3.                                *)
TwoStepNeedsEmptyTargetWitness ==
    /\ Asked("pawn")
    /\ call.source = <<"D", "2">>
    /\ HoldsColor(<<1, 3>>, "white")
    /\ ~Occupied(<<2, 3>>)
    /\ HoldsType(<<3, 3>>, "pawn") /\ HoldsColor(<<3, 3>>, "black")
    /\ ret.legal_moves = << <<"D", "3">> >>

(* C21: on every board reached from the initial position by move_piece     *)
(* calls, each destination get_legal_moves() returns for a piece is the    *)
(* text of a square (file A..H, rank 1..8) other than the piece's square   *)
(* and holding no piece of the piece's color.                              *)
DestinationsAreSquares ==
    \A sq \in Squares :
        Occupied(sq) =>
            \A d \in AsSet(get_legal_moves(heap, grids, PieceAt(sq))) :
                /\ d \in SquareTexts
                /\ uci_to_indices(d) # sq
                /\ ~HoldsColor(uci_to_indices(d), heap[PieceAt(sq)].color)

(* C21 witness: after E2-E4 and D7-D5 the white pawn on E4 has the black    *)
(* pawn's square D5 and the empty E5 among its destinations.               *)
DestinationsAreSquaresWitness ==
    /\ moves = 2
    /\ HoldsType(<<3, 4>>, "pawn") /\ HoldsColor(<<3, 4>>, "white")
    /\ HoldsType(<<4, 3>>, "pawn") /\ HoldsColor(<<4, 3>>, "black")
    /\ AsSet(get_legal_moves(heap, grids, PieceAt(<<3, 4>>))) = {<<"E", "5">>, <<"D", "5">>}

(* C22: a newly constructed Board holds 32 pieces, on rows 0, 1, 6 and 7     *)
(* and nowhere else; those of rows 0 and 1 are white, those of rows 6 and  *)
(* 7 black; rows 1 and 6 hold pawns, rows 0 and 7 hold rook, knight,       *)
(* bishop, queen, king, bishop, knight, rook on files A..H; each piece's   *)
(* row and col are those of its cell.                                      *)
NewBoardLayout ==
    moves = 0 =>
        /\ Cardinality({sq \in Squares : Occupied(sq)}) = 32
        /\ \A sq \in Squares : Occupied(sq) <=> sq[1] \in {0, 1, 6, 7}
        /\ \A sq \in Squares : sq[1] \in {0, 1} => HoldsColor(sq, "white")
        /\ \A sq \in Squares : sq[1] \in {6, 7} => HoldsColor(sq, "black")
        /\ \A sq \in Squares : sq[1] \in {1, 6} => HoldsType(sq, "pawn")
        /\ \A row \in {0, 7} :
              /\ HoldsType(<<row, 0>>, "rook")   /\ HoldsType(<<row, 7>>, "rook")
              /\ HoldsType(<<row, 1>>, "knight") /\ HoldsType(<<row, 6>>, "knight")
              /\ HoldsType(<<row, 2>>, "bishop") /\ HoldsType(<<row, 5>>, "bishop")
              /\ HoldsType(<<row, 3>>, "queen")
              /\ HoldsType(<<row, 4>>, "king")
        /\ \A sq \in Squares :
              Occupied(sq) => heap[PieceAt(sq)].row = sq[1] /\ heap[PieceAt(sq)].col = sq[2]

(* C22 witness: the board as constructed, no move made, the white king on   *)
(* E1 and the black queen on D8.                                           *)
NewBoardLayoutWitness ==
    /\ moves = 0
    /\ call.op = "none"
    /\ Cardinality(PiecesOf(grids[board])) = 32
    /\ HoldsType(<<0, 4>>, "king") /\ HoldsColor(<<0, 4>>, "white")
    /\ HoldsType(<<7, 3>>, "queen") /\ HoldsColor(<<7, 3>>, "black")

(* C30: for a source square holding a piece and any destination square,    *)
(* the source itself included, the grid move_piece returns holds the moved *)
(* piece, or the queen it was promoted to, on the destination, and the     *)
(* piece returned as captured is not the moved piece.                      *)
MovedPieceSurvives ==
    ( /\ call.op = "move_piece"
      /\ SourceIndices \in Squares
      /\ DestIndices \in Squares
      /\ SourcePiece # None )
    => /\ ret.raised = ""
       /\ MovedPiece # None
       /\ heap[MovedPiece].color = heap[SourcePiece].color
       /\ heap[MovedPiece].piece_type =
             IF PromotionApplies THEN "queen" ELSE heap[SourcePiece].piece_type
       /\ ret.captured # PieceId(ret.new_grid, SourceIndices[1], SourceIndices[2])

ValidatorAgreesWithPieces ==
    call.op = "get_legal_moves" =>
        \A d \in SquareTexts :
            is_valid_move(heap, grids, board, call.source, d, heap[SourcePiece].color)[1]
                <=> InList(d, ret.legal_moves)

(* C29: on every board reached from the initial position by move_piece     *)
(* calls, validated or not, no white pawn stands on row 7 and no black     *)
(* pawn on row 0; the rows Pawn.get_legal_moves reads are rows of the grid *)
(* and the squares it returns have ranks 1..8.                             *)
NoPawnOnLastRow ==
    \A sq \in Squares :
        HoldsType(sq, "pawn") =>
            LET color == heap[PieceAt(sq)].color
                self == heap[PieceAt(sq)]
            IN /\ color = "white" => sq[1] # 7
               /\ color = "black" => sq[1] # 0
               /\ self.row + Direction(color) \in Indices
               /\ self.row = HomeRow(color) => self.row + 2 * Direction(color) \in Indices
               /\ \A d \in AsSet(pawn_get_legal_moves(heap, grids, PieceAt(sq))) :
                     /\ Len(d) = 2
                     /\ d[2] \in {"1", "2", "3", "4", "5", "6", "7", "8"}

(* C29 witness: the white pawn of A2 was moved to A8 by a call no           *)
(* validation would accept; a white queen stands there, and no pawn.       *)
NoPawnOnLastRowWitness ==
    /\ call.op = "move_piece"
    /\ call.source = <<"A", "2">>
    /\ call.destination = <<"A", "8">>
    /\ ret.raised = ""
    /\ HoldsType(<<7, 0>>, "queen") /\ HoldsColor(<<7, 0>>, "white")
    /\ ~Occupied(<<1, 0>>)

(* C24: play_turn ends the game exactly when the player to move has no     *)
(* legal move, the first list generate_valid_moves returns being empty: it *)
(* sets game_over and returns without asking for a move.                   *)
NoLegalMovesEndsGame ==
    call.op = "play_turn" =>
        (ret.legal_moves = <<>> <=> (game.game_over /\ ~ret.prompted))

(* What a turn did, read from the step: the words of the input, whether    *)
(* the move they name is one is_valid_move accepts for the player to move, *)
(* whether a new grid was committed, whether the piece taken was a king.   *)
Words(text) ==
    split_whitespace([i \in 1..Len(text) |-> IF text[i] \in {",", "-"} THEN " " ELSE text[i]])
TurnPlayed == call'.op = "play_turn"
TurnAccepted ==
    /\ ret'.prompted
    /\ Len(Words(call'.text)) = 2
    /\ is_valid_move(heap, grids, board, Words(call'.text)[1], Words(call'.text)[2],
                     game.current_player)[1]
TurnCommitted == ret'.new_grid # None /\ board' = ret'.new_grid /\ board' # board
TurnTookKing == ret'.captured # None /\ heap'[ret'.captured].piece_type = "king"

(* C25: a game starts with white to move and not over; in a turn the player *)
(* to move changes, to the other color, exactly when the move typed was    *)
(* accepted by is_valid_move for the player to move, executed and          *)
(* committed as the board's grid, and took no king.                        *)
TurnAlternation ==
    /\ game = [current_player |-> "white", game_over |-> FALSE]
    /\ [][ TurnPlayed =>
             /\ game'.current_player # game.current_player
                   <=> (TurnAccepted /\ TurnCommitted /\ ~TurnTookKing)
             /\ game'.current_player \in {game.current_player, Opposite(game.current_player)}
             /\ TurnAccepted => TurnCommitted ]_vars

(* C25 witness: white's F2-F3 and black's E7-E5 were played; it is white's  *)
(* turn again.                                                             *)
TurnAlternationWitness ==
    /\ call.op = "play_turn"
    /\ call.color = "black"
    /\ moves = 2
    /\ ret.is_valid
    /\ HoldsType(<<4, 4>>, "pawn") /\ HoldsColor(<<4, 4>>, "black")
    /\ HoldsType(<<2, 5>>, "pawn") /\ HoldsColor(<<2, 5>>, "white")
    /\ game = [current_player |-> "white", game_over |-> FALSE]

(* C26: a turn whose input does not consist of two squares, or names a     *)
(* move is_valid_move rejects, leaves the board's grid, the player to move *)
(* and game_over as they were.                                             *)
RejectedTurnChangesNothing ==
    [][ (TurnPlayed /\ ret'.prompted /\ ~TurnAccepted) =>
          /\ board' = board
          /\ grids'[board'] = grids[board]
          /\ \A id \in PiecesOf(grids[board]) : heap'[id] = heap[id]
          /\ game' = game ]_vars

(* C26 witness: white typed "E2 E4 E6" on the initial position; nothing    *)
(* was moved and white is still to move.                                   *)
RejectedTurnChangesNothingWitness ==
    /\ call.op = "play_turn"
    /\ call.text = <<"E", "2", " ", "E", "4", " ", "E", "6">>
    /\ ret.prompted
    /\ ~ret.parsed
    /\ moves = 0
    /\ grids[board] = InitialPosition.grid
    /\ game = [current_player |-> "white", game_over |-> FALSE]

(* C27: the turn whose move takes a king sets game_over and leaves the     *)
(* player to move as it was; a turn is played only while game_over is      *)
(* false.                                                                  *)
KingCaptureEndsGame ==
    [][ /\ ~game.game_over
        /\ (TurnPlayed /\ TurnTookKing) =>
              /\ game'.game_over
              /\ game'.current_player = game.current_player ]_vars

(* C27 witness: black's queen took the white king on E1; the game is over   *)
(* with black still the player to move.                                    *)
KingCaptureEndsGameWitness ==
    /\ call.op = "play_turn"
    /\ call.color = "black"
    /\ ret.captured # None
    /\ heap[ret.captured].piece_type = "king"
    /\ heap[ret.captured].color = "white"
    /\ HoldsType(<<0, 4>>, "queen") /\ HoldsColor(<<0, 4>>, "black")
    /\ game = [current_player |-> "black", game_over |-> TRUE]

====
